---- MODULE Spec2Model ----
(***************************************************************************)
(* Model of src/hosting/app.py: the FastAPI service with the two handlers  *)
(* generate_batch (POST /generate_batch) and chat (POST /chat) in front of *)
(* a process-wide tokenizer/model pair.                                    *)
(*                                                                         *)
(* Python strings that the handlers inspect (chat_id, system_prompt,       *)
(* user_prompt, prompts) are sequences of one-character strings, so that   *)
(* truthiness, str.strip() and concatenation are computed, not assumed.    *)
(* Message texts and generated texts are opaque and are TLA+ strings.      *)
(* An Optional value is <<>> for None and <<v>> for the value v.           *)
(***************************************************************************)
EXTENDS Integers, Sequences, FiniteSets, TLC

VARIABLES
    started,    \* lifespan() has run its startup part
    engine,     \* the module globals tokenizer, model, device, gen_config
    calls       \* per in-flight request: handler position and its locals

vars == <<started, engine, calls>>

(* ----------------------------- bounds ---------------------------------- *)

\* longest 'queries' list a /generate_batch request carries (Spec)
MaxQueries == 3
\* number of requests handled at the same time by the thread pool (SpecConc)
MaxCalls == 2

(* ----------------------------- strings --------------------------------- *)

Whitespace == {" ", "\t", "\n"}

RECURSIVE LStrip(_)
LStrip(s) ==
    IF s # <<>> /\ Head(s) \in Whitespace THEN LStrip(Tail(s)) ELSE s

RECURSIVE RStrip(_)
RStrip(s) ==
    IF s # <<>> /\ s[Len(s)] \in Whitespace
    THEN RStrip(SubSeq(s, 1, Len(s) - 1))
    ELSE s

\* str.strip()
Strip(s) == RStrip(LStrip(s))

\* truthiness of a str: "" is falsy, every other string is truthy
Truthy(s) == s # <<>>

Digits == <<"0", "1", "2", "3", "4", "5", "6", "7", "8", "9">>

\* str(n) for n >= 0, as the f-string formats the index
RECURSIVE Str(_)
Str(n) ==
    IF n < 10 THEN <<Digits[n + 1]>>
    ELSE Str(n \div 10) \o <<Digits[(n % 10) + 1]>>

\* f"query_{i}"
QueryId(i) == <<"q", "u", "e", "r", "y", "_">> \o Str(i)

\* (x or ""), x an Optional[str]
OrEmpty(opt) == IF opt = <<>> THEN <<>> ELSE opt[1]

\* (q.system_prompt or "") + "\n" + q.user_prompt
PromptText(q) == OrEmpty(q.system_prompt) \o <<"\n">> \o q.user_prompt

(* ----------------------------- inputs ---------------------------------- *)

\* chat_id: str is required by the pydantic model, so it is never None
ChatIds == { <<>>, <<" ">>, <<"a">> }
UserPrompts == { <<>>, <<" ", " ">>, <<"h", "i">> }
SystemPrompts == { <<>>, << <<"s">> >> }

ChatRequest ==
    [chat_id : ChatIds, system_prompt : SystemPrompts, user_prompt : UserPrompts]

SeqsUpTo(S, n) == UNION { [1..k -> S] : k \in 0..n }

BatchedRequest == [queries : SeqsUpTo(ChatRequest, MaxQueries)]

\* what tokenizer.decode gives for one row of model.generate's output
GeneratedTexts == {"hello", "world"}

(* ----------------------------- state ----------------------------------- *)

NoHandles ==
    [tokenizer |-> "None", model |-> "None", device |-> "None", gen_config |-> "None"]

LoadedHandles ==
    [tokenizer  |-> "AutoTokenizer(MODEL_NAME)",
     model      |-> "AutoModelForCausalLM(MODEL_NAME)",
     device     |-> "cpu",
     gen_config |-> "GenerationConfig(150, True, 0.7, 0.9)"]

\* a thread of the pool with no request
Idle ==
    [pc |-> "idle", endpoint |-> "none", req |-> <<>>,
     i |-> 0, responses |-> <<>>, valid_prompts |-> <<>>, valid_indices |-> <<>>,
     outputs |-> <<>>, j |-> 0, exc |-> <<>>,
     engine_args |-> <<>>, status |-> 0, body |-> <<>>]

Init ==
    /\ started = FALSE
    /\ engine = NoHandles
    /\ calls = [c \in 1..1 |-> Idle]

InitConc ==
    /\ started = FALSE
    /\ engine = NoHandles
    /\ calls = [c \in 1..MaxCalls |-> Idle]

\* lifespan(): the startup part, before the yield
Lifespan ==
    /\ ~started
    /\ started' = TRUE
    /\ engine' = LoadedHandles
    /\ UNCHANGED calls

Set(c, r) == calls' = [calls EXCEPT ![c] = r]

(* --------------------- generate_batch: pure parts ---------------------- *)

\* not q.chat_id or q.chat_id.strip() == ""
ChatIdBlank(q) == ~Truthy(q.chat_id) \/ Strip(q.chat_id) = <<>>

\* mutant: the /chat rule, truthiness without strip()
UserPromptBlankNoStrip(q) == ~Truthy(q.user_prompt)

\* not q.user_prompt or q.user_prompt.strip() == ""
UserPromptBlank(q) == ~Truthy(q.user_prompt) \/ Strip(q.user_prompt) = <<>>

\* mutant: the placeholder counts positions from 1
ChatIdOrPlaceholderOneBased(i, q) ==
    IF Truthy(q.chat_id) THEN q.chat_id ELSE QueryId(i + 1)

\* q.chat_id or f"query_{i}"
ChatIdOrPlaceholder(i, q) == IF Truthy(q.chat_id) THEN q.chat_id ELSE QueryId(i)

ChatIdError(i, q) ==
    [chat_id |-> ChatIdOrPlaceholder(i, q),
     error |-> "chat_id is required and cannot be empty"]

UserPromptError(q) ==
    [chat_id |-> q.chat_id, error |-> "user_prompt is required and cannot be empty"]

\* {"placeholder": True, "chat_id": q.chat_id}
PlaceholderEntry(q) == [placeholder |-> TRUE, chat_id |-> q.chat_id]

\* mutant: the slot before the one the placeholder goes to
NextSlotOffByOne(responses) == IF responses = <<>> THEN 0 ELSE Len(responses) - 1

\* valid_indices.append(len(responses)): the 0-based slot of the next append
NextSlot(responses) == Len(responses)

\* mutant: the result is appended instead of replacing the placeholder
WriteResponseAppend(responses, response_index, text) ==
    Append(responses,
           [chat_id |-> responses[response_index + 1].chat_id, response |-> text])

\* responses[response_index] = {"chat_id": responses[response_index]["chat_id"],
\*                              "response": text}, response_index 0-based
WriteResponse(responses, response_index, text) ==
    [responses EXCEPT ![response_index + 1] =
        [chat_id |-> responses[response_index + 1].chat_id, response |-> text]]

\* mutant: the loop stops one output early
OutputsExhaustedEarly(j, outputs) == j >= Len(outputs) - 1

\* the for loop over enumerate(outputs) has consumed every output
OutputsExhausted(j, outputs) == j >= Len(outputs)

\* the globals the engine call reads were set by lifespan()
EngineReady ==
    /\ engine.tokenizer # "None"
    /\ engine.model # "None"
    /\ engine.device # "None"
    /\ engine.gen_config # "None"

\* HTTPException(status_code, detail); str(e) is "<status_code>: <detail>"
HTTPException(status_code, detail, str) ==
    [type |-> "HTTPException", status_code |-> status_code, detail |-> detail, str |-> str]

\* any exception the tokenizer or the model raises
EngineFault == [type |-> "RuntimeError", status_code |-> 0,
                detail |-> "engine fault", str |-> "engine fault"]

\* tokenizer(None...) : 'NoneType' object is not callable
NotLoaded == [type |-> "TypeError", status_code |-> 0,
              detail |-> "'NoneType' object is not callable",
              str |-> "'NoneType' object is not callable"]

\* valid_indices[j] with j past the end of the list
IndexError == [type |-> "IndexError", status_code |-> 0,
               detail |-> "list index out of range", str |-> "list index out of range"]

(* --------------------- generate_batch: the handler --------------------- *)

\* FastAPI parses the body into a BatchedRequest and calls generate_batch(req)
BatchBegin(c, Q) ==
    /\ started
    /\ calls[c].pc = "idle"
    /\ \E req \in Q :
         Set(c, [Idle EXCEPT !.pc = "b_check", !.endpoint = "generate_batch",
                             !.req = req])
    /\ UNCHANGED <<started, engine>>

BatchReceive(c) == BatchBegin(c, BatchedRequest)

\* if not req.queries: raise HTTPException(status_code=400, ...)
BatchRejectEmpty(c) ==
    /\ calls[c].pc = "b_check"
    /\ calls[c].req.queries = <<>>
    /\ Set(c, [calls[c] EXCEPT
            !.pc = "b_except",
            !.exc = << HTTPException(400, "queries array required and must be non-empty",
                         "400: queries array required and must be non-empty") >>])
    /\ UNCHANGED <<started, engine>>

\* mutant: responses is a module-level list shared by the calls in flight
BatchInitListsShared(c) ==
    LET others == {d \in DOMAIN calls \ {c} : calls[d].endpoint = "generate_batch"}
    IN  /\ calls[c].pc = "b_check"
        /\ calls[c].req.queries # <<>>
        /\ Set(c, [calls[c] EXCEPT
                !.pc = "b_validate", !.i = 0,
                !.responses = IF others = {} THEN <<>>
                              ELSE calls[CHOOSE d \in others : TRUE].responses,
                !.valid_prompts = <<>>, !.valid_indices = <<>>])
        /\ UNCHANGED <<started, engine>>

\* responses = []; valid_prompts = []; valid_indices = []
BatchInitLists(c) ==
    /\ calls[c].pc = "b_check"
    /\ calls[c].req.queries # <<>>
    /\ Set(c, [calls[c] EXCEPT
            !.pc = "b_validate", !.i = 0,
            !.responses = <<>>, !.valid_prompts = <<>>, !.valid_indices = <<>>])
    /\ UNCHANGED <<started, engine>>

\* one iteration of: for i, q in enumerate(req.queries)
BatchValidateItem(c) ==
    LET L == calls[c]
        i == L.i
    IN  /\ L.pc = "b_validate"
        /\ i < Len(L.req.queries)
        /\ LET q == L.req.queries[i + 1] IN
             IF ChatIdBlank(q) THEN
                Set(c, [L EXCEPT !.i = i + 1,
                                 !.responses = Append(@, ChatIdError(i, q))])
             ELSE IF UserPromptBlank(q) THEN
                Set(c, [L EXCEPT !.i = i + 1,
                                 !.responses = Append(@, UserPromptError(q))])
             ELSE
                Set(c, [L EXCEPT !.i = i + 1,
                                 !.valid_prompts = Append(@, PromptText(q)),
                                 !.valid_indices = Append(@, NextSlot(L.responses)),
                                 !.responses = Append(@, PlaceholderEntry(q))])
        /\ UNCHANGED <<started, engine>>

ValidationDone(c) ==
    /\ calls[c].pc = "b_validate"
    /\ calls[c].i = Len(calls[c].req.queries)

\* if valid_prompts: is false, nothing is sent to the engine
BatchSkipEngine(c) ==
    /\ ValidationDone(c)
    /\ calls[c].valid_prompts = <<>>
    /\ Set(c, [calls[c] EXCEPT !.pc = "b_return"])
    /\ UNCHANGED <<started, engine>>

\* inputs = tokenizer(valid_prompts, ...); outputs = model.generate(...):
\* one row per prompt, in the order of the prompts
BatchGenerate(c) ==
    /\ ValidationDone(c)
    /\ calls[c].valid_prompts # <<>>
    /\ EngineReady
    /\ \E outs \in [1..Len(calls[c].valid_prompts) -> GeneratedTexts] :
         Set(c, [calls[c] EXCEPT
                 !.engine_args = Append(@, calls[c].valid_prompts),
                 !.outputs = outs, !.j = 0, !.pc = "b_reassemble"])
    /\ UNCHANGED <<started, engine>>

\* the tokenizer or the model raises
BatchGenerateFails(c) ==
    /\ ValidationDone(c)
    /\ calls[c].valid_prompts # <<>>
    /\ Set(c, [calls[c] EXCEPT
            !.engine_args = Append(@, calls[c].valid_prompts),
            !.exc = << IF EngineReady THEN EngineFault ELSE NotLoaded >>,
            !.pc = "b_except"])
    /\ UNCHANGED <<started, engine>>

\* one iteration of: for j, output in enumerate(outputs)
BatchReassemble(c) ==
    LET L == calls[c]
        j == L.j
    IN  /\ L.pc = "b_reassemble"
        /\ ~OutputsExhausted(j, L.outputs)
        /\ IF j < Len(L.valid_indices)
           THEN Set(c, [L EXCEPT
                   !.j = j + 1,
                   !.responses =
                       WriteResponse(@, L.valid_indices[j + 1], L.outputs[j + 1])])
           ELSE \* valid_indices[j]: IndexError
                Set(c, [L EXCEPT !.exc = << IndexError >>, !.pc = "b_except"])
        /\ UNCHANGED <<started, engine>>

\* return {"responses": responses}
BatchReturn(c) ==
    /\ \/ calls[c].pc = "b_return"
       \/ calls[c].pc = "b_reassemble" /\ OutputsExhausted(calls[c].j, calls[c].outputs)
    /\ Set(c, [calls[c] EXCEPT
            !.pc = "done", !.status = 200,
            !.body = [responses |-> calls[c].responses]])
    /\ UNCHANGED <<started, engine>>

\* mutant: the failure is swallowed and the list built so far is returned
BatchExceptPartial(c) ==
    /\ calls[c].pc = "b_except"
    /\ Set(c, [calls[c] EXCEPT
            !.pc = "done", !.status = 200,
            !.body = [responses |-> calls[c].responses]])
    /\ UNCHANGED <<started, engine>>

\* except Exception as e: raise HTTPException(status_code=500, detail=str(e))
BatchExcept(c) ==
    /\ calls[c].pc = "b_except"
    /\ Set(c, [calls[c] EXCEPT
            !.pc = "done", !.status = 500,
            !.body = [detail |-> calls[c].exc[1].str]])
    /\ UNCHANGED <<started, engine>>

\* the response is sent and the handler's frame is gone
Respond(c) ==
    /\ calls[c].pc = "done"
    /\ Set(c, Idle)
    /\ UNCHANGED <<started, engine>>

(* ------------------------- chat: the handler --------------------------- *)

\* not req.chat_id or not req.user_prompt
ChatMissing(q) == ~Truthy(q.chat_id) \/ ~Truthy(q.user_prompt)

\* FastAPI parses the body into a ChatRequest and calls chat(req)
ChatBegin(c, Q) ==
    /\ started
    /\ calls[c].pc = "idle"
    /\ \E req \in Q :
         Set(c, [Idle EXCEPT !.pc = "c_check", !.endpoint = "chat", !.req = req])
    /\ UNCHANGED <<started, engine>>

ChatReceive(c) == ChatBegin(c, ChatRequest)

\* if not req.chat_id or not req.user_prompt: raise HTTPException(status_code=400, ...)
ChatReject(c) ==
    /\ calls[c].pc = "c_check"
    /\ ChatMissing(calls[c].req)
    /\ Set(c, [calls[c] EXCEPT
            !.pc = "c_except",
            !.exc = << HTTPException(400, "chat_id and user_prompt are required",
                         "400: chat_id and user_prompt are required") >>])
    /\ UNCHANGED <<started, engine>>

\* prompt = ...; inputs = tokenizer(prompt, ...); outputs = model.generate(...)
ChatGenerate(c) ==
    /\ calls[c].pc = "c_check"
    /\ ~ChatMissing(calls[c].req)
    /\ EngineReady
    /\ \E text \in GeneratedTexts :
         Set(c, [calls[c] EXCEPT
                 !.engine_args = Append(@, PromptText(calls[c].req)),
                 !.outputs = <<text>>, !.pc = "c_return"])
    /\ UNCHANGED <<started, engine>>

\* the tokenizer or the model raises
ChatGenerateFails(c) ==
    /\ calls[c].pc = "c_check"
    /\ ~ChatMissing(calls[c].req)
    /\ Set(c, [calls[c] EXCEPT
            !.engine_args = Append(@, PromptText(calls[c].req)),
            !.exc = << IF EngineReady THEN EngineFault ELSE NotLoaded >>,
            !.pc = "c_except"])
    /\ UNCHANGED <<started, engine>>

\* text = tokenizer.decode(outputs[0], ...); return {"chat_id": ..., "response": text}
ChatReturn(c) ==
    /\ calls[c].pc = "c_return"
    /\ Set(c, [calls[c] EXCEPT
            !.pc = "done", !.status = 200,
            !.body = [chat_id |-> calls[c].req.chat_id, response |-> calls[c].outputs[1]]])
    /\ UNCHANGED <<started, engine>>

\* except Exception as e: raise HTTPException(status_code=500, detail=str(e))
ChatExcept(c) ==
    /\ calls[c].pc = "c_except"
    /\ Set(c, [calls[c] EXCEPT
            !.pc = "done", !.status = 500,
            !.body = [detail |-> calls[c].exc[1].str]])
    /\ UNCHANGED <<started, engine>>

(* --------------------------- specifications ---------------------------- *)

\* one request at a time, every request of the input space
Next ==
    \/ Lifespan
    \/ \E c \in DOMAIN calls : BatchReceive(c)
    \/ \E c \in DOMAIN calls : ChatReceive(c)
    \/ \E c \in DOMAIN calls : BatchRejectEmpty(c)
    \/ \E c \in DOMAIN calls : BatchInitLists(c)
    \/ \E c \in DOMAIN calls : BatchValidateItem(c)
    \/ \E c \in DOMAIN calls : BatchSkipEngine(c)
    \/ \E c \in DOMAIN calls : BatchGenerate(c)
    \/ \E c \in DOMAIN calls : BatchGenerateFails(c)
    \/ \E c \in DOMAIN calls : BatchReassemble(c)
    \/ \E c \in DOMAIN calls : BatchReturn(c)
    \/ \E c \in DOMAIN calls : BatchExcept(c)
    \/ \E c \in DOMAIN calls : ChatReject(c)
    \/ \E c \in DOMAIN calls : ChatGenerate(c)
    \/ \E c \in DOMAIN calls : ChatGenerateFails(c)
    \/ \E c \in DOMAIN calls : ChatReturn(c)
    \/ \E c \in DOMAIN calls : ChatExcept(c)
    \/ \E c \in DOMAIN calls : Respond(c)

Spec == Init /\ [][Next]_vars

\* requests served at the same time by the threads of the pool
ConcChatRequest ==
    { [chat_id |-> <<"a">>, system_prompt |-> <<>>, user_prompt |-> <<"h", "i">>],
      [chat_id |-> <<>>, system_prompt |-> <<>>, user_prompt |-> <<"h", "i">>] }

ConcBatchedRequest ==
    { [queries |-> <<>>],
      [queries |-> << [chat_id |-> <<" ">>, system_prompt |-> <<>>,
                       user_prompt |-> <<>>] >>],
      [queries |-> << [chat_id |-> <<>>, system_prompt |-> <<>>,
                       user_prompt |-> <<"h", "i">>],
                      [chat_id |-> <<"a">>, system_prompt |-> << <<"s">> >>,
                       user_prompt |-> <<"h", "i">>] >>],
      [queries |-> << [chat_id |-> <<"a">>, system_prompt |-> <<>>,
                       user_prompt |-> <<"h", "i">>],
                      [chat_id |-> <<" ">>, system_prompt |-> <<>>,
                       user_prompt |-> <<"h", "i">>] >>] }

ConcBatchReceive(c) == BatchBegin(c, ConcBatchedRequest)

ConcChatReceive(c) == ChatBegin(c, ConcChatRequest)

\* several requests in flight, their steps interleaved
NextConc ==
    \/ Lifespan
    \/ \E c \in DOMAIN calls : ConcBatchReceive(c)
    \/ \E c \in DOMAIN calls : ConcChatReceive(c)
    \/ \E c \in DOMAIN calls : BatchRejectEmpty(c)
    \/ \E c \in DOMAIN calls : BatchInitLists(c)
    \/ \E c \in DOMAIN calls : BatchValidateItem(c)
    \/ \E c \in DOMAIN calls : BatchSkipEngine(c)
    \/ \E c \in DOMAIN calls : BatchGenerate(c)
    \/ \E c \in DOMAIN calls : BatchGenerateFails(c)
    \/ \E c \in DOMAIN calls : BatchReassemble(c)
    \/ \E c \in DOMAIN calls : BatchReturn(c)
    \/ \E c \in DOMAIN calls : BatchExcept(c)
    \/ \E c \in DOMAIN calls : ChatReject(c)
    \/ \E c \in DOMAIN calls : ChatGenerate(c)
    \/ \E c \in DOMAIN calls : ChatGenerateFails(c)
    \/ \E c \in DOMAIN calls : ChatReturn(c)
    \/ \E c \in DOMAIN calls : ChatExcept(c)
    \/ \E c \in DOMAIN calls : Respond(c)

SpecConc == InitConc /\ [][NextConc]_vars

(* ------------------------------ claims --------------------------------- *)

\* empty after trimming whitespace
Blank(s) == Strip(s) = <<>>

\* a query the batch must answer with an error result
Invalid(q) == Blank(q.chat_id) \/ Blank(q.user_prompt)

\* how many valid queries there are among the first i
Rank(qs, i) == Cardinality({k \in 1..i : ~Invalid(qs[k])})

IsError(r) == DOMAIN r = {"chat_id", "error"}

IsSuccess(r) == DOMAIN r = {"chat_id", "response"}

IsBatch(c) == calls[c].endpoint = "generate_batch"

IsChat(c) == calls[c].endpoint = "chat"

Finished(c) == calls[c].pc = "done"

\* the call returned {"responses": [...]}
ReturnedResponses(c) == IsBatch(c) /\ Finished(c) /\ calls[c].status = 200

\* the tokenizer or the model raised during this call
EngineFailed(c) ==
    /\ calls[c].exc # <<>>
    /\ calls[c].exc[1].type \in {"RuntimeError", "TypeError"}

\* system_prompt, a newline, user_prompt
ExpectedPrompt(q) ==
    (IF q.system_prompt = <<>> THEN <<>> ELSE q.system_prompt[1])
        \o <<"\n">> \o q.user_prompt

RECURSIVE ExpectedPrompts(_)
ExpectedPrompts(qs) ==
    IF qs = <<>> THEN <<>>
    ELSE (IF Invalid(Head(qs)) THEN <<>> ELSE <<ExpectedPrompt(Head(qs))>>)
             \o ExpectedPrompts(Tail(qs))

\* C1: a generate_batch call on a non-empty list whose engine call does not
\* fail returns a 'responses' list with exactly as many elements as 'queries'.
C1_SameLength ==
    \A c \in DOMAIN calls :
        (IsBatch(c) /\ Finished(c) /\ calls[c].req.queries # <<>> /\ ~EngineFailed(c))
            => /\ calls[c].status = 200
               /\ DOMAIN calls[c].body = {"responses"}
               /\ Len(calls[c].body.responses) = Len(calls[c].req.queries)

C1_Witness ==
    \E c \in DOMAIN calls :
        /\ ReturnedResponses(c)
        /\ Len(calls[c].req.queries) = 3
        /\ Invalid(calls[c].req.queries[1])
        /\ ~Invalid(calls[c].req.queries[2])
        /\ Invalid(calls[c].req.queries[3])

\* C2: order is preserved: responses[i] is an error result exactly when
\* queries[i] is invalid, the j-th valid query gets a success result carrying
\* the j-th output of the engine, and at no point of the reassembly does a
\* generated string sit in the slot of an invalid or of another valid query.
C2_OrderPreserved ==
    \A c \in DOMAIN calls :
        LET qs == calls[c].req.queries
            rs == calls[c].responses
        IN  /\ (IsBatch(c) /\ calls[c].pc \in {"b_reassemble", "b_return", "done"})
                 => \A i \in DOMAIN rs :
                        IsSuccess(rs[i]) =>
                            /\ i \in DOMAIN qs
                            /\ ~Invalid(qs[i])
                            /\ rs[i].response = calls[c].outputs[Rank(qs, i)]
            /\ ReturnedResponses(c)
                 => /\ DOMAIN calls[c].body.responses = DOMAIN qs
                    /\ \A i \in DOMAIN qs :
                        LET r == calls[c].body.responses[i] IN
                        /\ IsError(r) <=> Invalid(qs[i])
                        /\ ~Invalid(qs[i]) =>
                              /\ IsSuccess(r)
                              /\ r.response = calls[c].outputs[Rank(qs, i)]

C2_Witness ==
    \E c \in DOMAIN calls :
        /\ ReturnedResponses(c)
        /\ Len(calls[c].req.queries) = 3
        /\ Invalid(calls[c].req.queries[1])
        /\ ~Invalid(calls[c].req.queries[2])
        /\ ~Invalid(calls[c].req.queries[3])
        /\ calls[c].outputs[1] # calls[c].outputs[2]

\* C3 as stated: responses[i].chat_id is queries[i].chat_id when that is
\* non-blank and "query_<i>" when it is blank, whitespace-only included.
C3_PlaceholderWhenBlank ==
    \A c \in DOMAIN calls :
        ReturnedResponses(c) =>
            \A i \in DOMAIN calls[c].req.queries :
                calls[c].body.responses[i].chat_id =
                    IF Blank(calls[c].req.queries[i].chat_id)
                    THEN QueryId(i - 1)
                    ELSE calls[c].req.queries[i].chat_id

\* C3 amended: responses[i].chat_id is queries[i].chat_id when that is not
\* the empty string (a whitespace-only chat_id is echoed unchanged) and
\* "query_<i>", i the 0-based position, when it is the empty string.
C3_PlaceholderWhenEmpty ==
    \A c \in DOMAIN calls :
        ReturnedResponses(c) =>
            \A i \in DOMAIN calls[c].req.queries :
                calls[c].body.responses[i].chat_id =
                    IF calls[c].req.queries[i].chat_id = <<>>
                    THEN <<"q", "u", "e", "r", "y", "_">> \o <<Digits[i]>>
                    ELSE calls[c].req.queries[i].chat_id

C3_Witness ==
    \E c \in DOMAIN calls :
        /\ ReturnedResponses(c)
        /\ Len(calls[c].req.queries) = 3
        /\ calls[c].req.queries[1].chat_id = <<" ">>
        /\ calls[c].req.queries[2].chat_id = <<"a">>
        /\ calls[c].req.queries[3].chat_id = <<>>
        /\ calls[c].body.responses[3].chat_id = <<"q", "u", "e", "r", "y", "_", "2">>

\* C4: a generate_batch call invokes the engine once if some query is valid
\* and never if none is; the prompts passed are the PromptTexts of the valid
\* queries in input order.
C4_OneEngineCall ==
    \A c \in DOMAIN calls :
        IsBatch(c) =>
            LET qs == calls[c].req.queries
                args == calls[c].engine_args
            IN  /\ Len(args) <= 1
                /\ \A k \in DOMAIN args : args[k] = ExpectedPrompts(qs)
                /\ (\A i \in DOMAIN qs : Invalid(qs[i])) => args = <<>>
                /\ (Finished(c) /\ \E i \in DOMAIN qs : ~Invalid(qs[i]))
                      => Len(args) = 1

C4_Witness ==
    \E c \in DOMAIN calls :
        /\ IsBatch(c) /\ Finished(c)
        /\ Len(calls[c].req.queries) = 3
        /\ Len(calls[c].engine_args) = 1
        /\ Len(calls[c].engine_args[1]) = 2
        /\ calls[c].req.queries[2].chat_id = <<"a">>
        /\ calls[c].req.queries[2].user_prompt = <<" ", " ">>

\* C5: generate_batch on an empty 'queries' list ends with status 400, with
\* no 'responses' list and no engine call.
C5_EmptyQueriesIs400 ==
    \A c \in DOMAIN calls :
        (IsBatch(c) /\ Finished(c) /\ calls[c].req.queries = <<>>)
            => /\ calls[c].status = 400
               /\ "responses" \notin DOMAIN calls[c].body
               /\ calls[c].engine_args = <<>>

\* C6: /chat with an empty chat_id or user_prompt ends with status 400; 500
\* comes only from an internal failure, 200 with {chat_id, response} only
\* from success.
C6_ChatStatus ==
    \A c \in DOMAIN calls :
        (IsChat(c) /\ Finished(c))
            => /\ (calls[c].req.chat_id = <<>> \/ calls[c].req.user_prompt = <<>>)
                    => calls[c].status = 400
               /\ calls[c].status = 500 => EngineFailed(c)
               /\ calls[c].status = 200
                    => /\ DOMAIN calls[c].body = {"chat_id", "response"}
                       /\ ~EngineFailed(c)

\* C7: a /chat request whose chat_id or user_prompt is empty after trimming
\* never reaches the engine and ends with a request-level error.
C7_ChatBlankNeverReachesEngine ==
    \A c \in DOMAIN calls :
        (IsChat(c) /\ Invalid(calls[c].req))
            => /\ calls[c].engine_args = <<>>
               /\ Finished(c) => calls[c].status = 400

\* C8: when the engine fails in a generate_batch call, the call ends with one
\* 500 error, returns no 'responses' list, writes no per-item result and does
\* not invoke the engine again.
C8_EngineFailureAborts ==
    \A c \in DOMAIN calls :
        (IsBatch(c) /\ EngineFailed(c))
            => /\ calls[c].pc \in {"b_except", "done"}
               /\ Len(calls[c].engine_args) = 1
               /\ Finished(c)
                    => /\ calls[c].status = 500
                       /\ DOMAIN calls[c].body = {"detail"}

C8_Witness ==
    \E c \in DOMAIN calls :
        /\ IsBatch(c) /\ EngineFailed(c) /\ Finished(c)
        /\ \E i \in DOMAIN calls[c].responses : IsError(calls[c].responses[i])

\* C9: every element of a returned 'responses' list has a chat_id and exactly
\* one of 'response' and 'error'; no placeholder entry is returned.
C9_NoPlaceholderReturned ==
    \A c \in DOMAIN calls :
        ReturnedResponses(c) =>
            \A i \in DOMAIN calls[c].body.responses :
                LET r == calls[c].body.responses[i] IN
                /\ IsError(r) \/ IsSuccess(r)
                /\ "placeholder" \notin DOMAIN r

C9_Witness ==
    \E c \in DOMAIN calls :
        /\ ReturnedResponses(c)
        /\ Len(calls[c].valid_indices) = 3
        /\ calls[c].j = 3

\* what a finished call must have answered, from its own request and the
\* outputs the engine gave for its own prompts
ExpectedResponses(qs, outputs) ==
    [i \in DOMAIN qs |->
        IF Blank(qs[i].chat_id) THEN
            [chat_id |-> IF qs[i].chat_id = <<>>
                         THEN <<"q", "u", "e", "r", "y", "_">> \o <<Digits[i]>>
                         ELSE qs[i].chat_id,
             error |-> "chat_id is required and cannot be empty"]
        ELSE IF Blank(qs[i].user_prompt) THEN
            [chat_id |-> qs[i].chat_id,
             error |-> "user_prompt is required and cannot be empty"]
        ELSE
            [chat_id |-> qs[i].chat_id, response |-> outputs[Rank(qs, i)]]]

OwnResult(c) ==
    /\ IsBatch(c) =>
         /\ \A k \in DOMAIN calls[c].engine_args :
                calls[c].engine_args[k] = ExpectedPrompts(calls[c].req.queries)
         /\ (Finished(c) /\ calls[c].status = 200) =>
                calls[c].body =
                    [responses |->
                        ExpectedResponses(calls[c].req.queries, calls[c].outputs)]
    /\ IsChat(c) =>
         /\ \A k \in DOMAIN calls[c].engine_args :
                calls[c].engine_args[k] = ExpectedPrompt(calls[c].req)
         /\ (Finished(c) /\ calls[c].status = 200) =>
                calls[c].body =
                    [chat_id |-> calls[c].req.chat_id, response |-> calls[c].outputs[1]]
    /\ Finished(c) => calls[c].status = IF calls[c].exc = <<>> THEN 200 ELSE 500

\* C10: once lifespan() has run, no step of any call changes tokenizer,
\* model, device or gen_config, and with several calls in flight each call's
\* answer is the one its own request and its own engine outputs determine.
C10_Stateless ==
    /\ [][started => engine' = engine]_vars
    /\ [](\A c \in DOMAIN calls : OwnResult(c))

C10_Witness ==
    \E c, d \in DOMAIN calls :
        /\ c # d
        /\ ReturnedResponses(c)
        /\ Len(calls[c].req.queries) = 2
        /\ IsBatch(d)
        /\ calls[d].pc = "b_reassemble"
        /\ calls[d].responses # <<>>
        /\ calls[d].req # calls[c].req

====
